---- MODULE Spec2Model ----
(***************************************************************************)
(* A model of package coordinated_exit (src/coordinated_exit.go).          *)
(*                                                                         *)
(* The package state is the five package variables; every goroutine is a   *)
(* process with a program counter that walks the statements of the call it *)
(* is in.  Each action is one atomic step of the Go code: one mutex        *)
(* operation, one atomic load or store, one step of sync.Cond, one channel *)
(* or os/signal operation.  sync.Cond is modelled as the runtime           *)
(* implements it: Wait() takes a ticket on the notify list while the lock  *)
(* is still held, unlocks, parks until the ticket has been notified and    *)
(* locks again; Broadcast() notifies every ticket taken so far and needs   *)
(* no lock.                                                                *)
(*                                                                         *)
(* Every behaviour of the model is finite (the workers make at most        *)
(* MaxCalls calls, at most MaxInterrupts interrupts arrive, and a waiter   *)
(* goes round its loop once per Broadcast).  Under fair scheduling of the  *)
(* goroutines a behaviour therefore ends in a state where no goroutine     *)
(* that is inside a call has a step it can take (Quiescent): "eventually"  *)
(* under fair scheduling is what holds in those states.                    *)
(***************************************************************************)
EXTENDS Integers, Sequences, FiniteSets, TLC

\* Bounds of the model.
NumWorkers == 2
MaxCalls == 3
MaxErr == 2
MaxInterrupts == 2

\* Goroutines: the callers of the package, and the two goroutines of the
\* interrupt bridge (waitForInterruptRoutine and the func literal it starts).
Workers == 1..NumWorkers
BridgeParent == NumWorkers + 1
BridgeChild == NumWorkers + 2
Procs == Workers \cup {BridgeParent, BridgeChild}
Waiters == Workers \cup {BridgeParent}
Signalers == Workers \cup {BridgeChild}

\* sync.Mutex: the owner, or NoOwner when unlocked.
NoOwner == 0

\* Error values.  NilErr is Go's nil error; Errs are the non-nil errors a
\* caller can pass (the reasons).  ExitWithError accepts any of ErrArgs.
NilErr == 0
Errs == 1..MaxErr
ErrArgs == {NilErr} \cup Errs

\* Values returned by the calls.
NoRet == [kind |-> "none", errs |-> <<>>]
NilRet == [kind |-> "nil", errs |-> <<>>]
SingleRet(e) == IF e = NilErr THEN NilRet ELSE [kind |-> "single", errs |-> <<e>>]
BoolRet(b) == [kind |-> IF b THEN "true" ELSE "false", errs |-> <<>>]

\* errors.Join(errs...): discards nil values, returns nil if none is left,
\* otherwise one join error wrapping the remaining values in argument order.
NotNil(e) == e # NilErr
Join(s) ==
  LET nn == SelectSeq(s, NotNil)
  IN  IF nn = <<>> THEN NilRet ELSE [kind |-> "join", errs |-> nn]

VARIABLES
  shouldExit,            \* var shouldExit atomic.Bool
  exitReasons,           \* var exitReasons []error
  signalAlreadyHandled,  \* var signalAlreadyHandled bool
  mutex,                 \* var mutex sync.Mutex (its owner)
  notifyList,            \* exitCond: goroutines holding a ticket not yet notified
  registered,            \* os/signal: c is registered for os.Interrupt
  chanBuf,               \* number of signals buffered in c (capacity 1)
  chanClosed,            \* c has been closed
  killed,                \* the process was terminated by an unhandled interrupt
  pc,                    \* position of each goroutine
  op,                    \* the public call each goroutine is in
  arg,                   \* the error argument of the ExitWithError in progress
  ret,                   \* the value the call in progress returns
  budget,                \* calls the workers may still start
  intLog,                \* history: what happened to each interrupt, in order
  lastPoll,              \* history: result of the latest ShouldExit call
  doneErrs,              \* history: completed ExitWithError calls, per reason
  seenDone,              \* history: doneErrs when the WaitForExit in progress began
  logSeen,               \* history: exitReasons when the ExitReason in progress tested its length
  startFlag,             \* history: shouldExit when the WaitForExit or ExitWithoutError
                         \* call in progress began
  starts,                \* history: number of bridge routines started
  retd,                  \* history: the results of the workers' WaitForExit calls that returned
  prior,                 \* history: retd when the WaitForExit in progress began
  notifies               \* history: number of signal.Notify registrations

vars == <<shouldExit, exitReasons, signalAlreadyHandled, mutex, notifyList,
          registered, chanBuf, chanClosed, killed, pc, op, arg, ret, budget,
          intLog, lastPoll, doneErrs, seenDone, logSeen, startFlag, starts,
          retd, prior, notifies>>

shared == <<shouldExit, exitReasons, signalAlreadyHandled, mutex, notifyList>>
sigvars == <<registered, chanBuf, chanClosed, killed, intLog, notifies>>
hist == <<lastPoll, doneErrs, seenDone, logSeen, startFlag, starts, prior>>

NoneDone == [e \in Errs |-> 0]

\* How often e occurs in s.
Count(e, s) == Cardinality({i \in DOMAIN s : s[i] = e})

\* The state after package init(): nothing set, no goroutine in a call.
Init ==
  /\ shouldExit = FALSE
  /\ exitReasons = <<>>
  /\ signalAlreadyHandled = FALSE
  /\ mutex = NoOwner
  /\ notifyList = {}
  /\ registered = FALSE
  /\ chanBuf = 0
  /\ chanClosed = FALSE
  /\ killed = FALSE
  /\ pc = [p \in Procs |-> IF p \in Workers THEN "idle" ELSE "off"]
  /\ op = [p \in Procs |-> "none"]
  /\ arg = [p \in Procs |-> NilErr]
  /\ ret = [p \in Procs |-> NoRet]
  /\ budget = MaxCalls
  /\ intLog = <<>>
  /\ lastPoll = "none"
  /\ doneErrs = NoneDone
  /\ seenDone = [p \in Procs |-> NoneDone]
  /\ logSeen = [p \in Procs |-> <<>>]
  /\ startFlag = [p \in Procs |-> FALSE]
  /\ starts = 0
  /\ retd = {}
  /\ prior = [p \in Procs |-> {}]
  /\ notifies = 0

\* A goroutine moves to a new position.
Goto(p, l) == pc' = [pc EXCEPT ![p] = l]

\* mutex.Lock() and mutex.Unlock().
Lock(p) == mutex = NoOwner /\ mutex' = p
Unlock(p) == mutex = p /\ mutex' = NoOwner

\* History: a worker's WaitForExit returns r.
RecordReturn(p, r) ==
  retd' = IF p \in Workers /\ op[p] = "WaitForExit"
          THEN retd \cup {[errs |-> r.errs, after |-> startFlag[p],
                           log |-> logSeen[p]]}
          ELSE retd

\* Where a goroutine continues after the call it made returns.
AfterExitWithoutError(p) == IF p = BridgeChild THEN "c_done" ELSE "ret"
AfterWaitForExit(p) == IF p = BridgeParent THEN "b_stop" ELSE "ret"
AfterExitReason(p) == IF op[p] = "WaitForExit" THEN AfterWaitForExit(p) ELSE "ret"

\* The phase of the bridge, read off the position of waitForInterruptRoutine.
BridgePhase ==
  CASE pc[BridgeParent] = "off" -> "uninstalled"
    [] pc[BridgeParent] = "b_notify" -> "installing"
    [] pc[BridgeParent] \in {"b_close", "b_done"} -> "torndown"
    [] OTHER -> "installed"

----------------------------------------------------------------------------
\* Calls.  A worker that is outside every call starts one.

CanCall(p) == p \in Workers /\ pc[p] = "idle" /\ budget > 0 /\ ~killed

Enter(p, o, l) ==
  /\ pc' = [pc EXCEPT ![p] = l]
  /\ op' = [op EXCEPT ![p] = o]
  /\ startFlag' = [startFlag EXCEPT ![p] =
                     o \in {"WaitForExit", "ExitWithoutError"} /\ shouldExit]
  /\ seenDone' = [seenDone EXCEPT ![p] = IF o = "WaitForExit" THEN doneErrs ELSE NoneDone]
  /\ prior' = [prior EXCEPT ![p] = IF o = "WaitForExit" THEN retd ELSE {}]

\* func ShouldExit() bool: one atomic load.
ShouldExit(p) ==
  /\ CanCall(p)
  /\ Enter(p, "ShouldExit", "ret")
  /\ ret' = [ret EXCEPT ![p] = BoolRet(shouldExit)]
  /\ lastPoll' = IF shouldExit THEN "true" ELSE "false"
  /\ budget' = budget - 1
  /\ UNCHANGED <<shared, sigvars, arg, doneErrs, logSeen, starts, retd>>

CallExitWithoutError(p) ==
  /\ CanCall(p)
  /\ Enter(p, "ExitWithoutError", "ewe_store")
  /\ budget' = budget - 1
  /\ UNCHANGED <<shared, sigvars, arg, ret, lastPoll, doneErrs, logSeen, starts, retd>>

CallExitWithError(p, e) ==
  /\ CanCall(p)
  /\ Enter(p, "ExitWithError", "err_lock")
  /\ arg' = [arg EXCEPT ![p] = e]
  /\ budget' = budget - 1
  /\ UNCHANGED <<shared, sigvars, ret, lastPoll, doneErrs, logSeen, starts, retd>>

\* func ExitWithErrorf(format, args...): fmt.Errorf builds a non-nil error
\* and ExitWithError is called with it.
CallExitWithErrorf(p, e) ==
  /\ e \in Errs
  /\ CallExitWithError(p, e)

CallExitReason(p) ==
  /\ CanCall(p)
  /\ Enter(p, "ExitReason", "er_lock")
  /\ budget' = budget - 1
  /\ UNCHANGED <<shared, sigvars, arg, ret, lastPoll, doneErrs, logSeen, starts, retd>>

CallExitOnInterrupt(p) ==
  /\ CanCall(p)
  /\ Enter(p, "ExitOnInterrupt", "eoi_lock")
  /\ budget' = budget - 1
  /\ UNCHANGED <<shared, sigvars, arg, ret, lastPoll, doneErrs, logSeen, starts, retd>>

CallWaitForExit(p) ==
  /\ CanCall(p)
  /\ Enter(p, "WaitForExit", "w_lock")
  /\ budget' = budget - 1
  /\ UNCHANGED <<shared, sigvars, arg, ret, lastPoll, doneErrs, logSeen, starts, retd>>

\* The call has returned: the worker is outside every call again.
Return(p) ==
  /\ p \in Workers /\ pc[p] = "ret" /\ ~killed
  /\ Goto(p, "idle")
  /\ op' = [op EXCEPT ![p] = "none"]
  /\ arg' = [arg EXCEPT ![p] = NilErr]
  /\ ret' = [ret EXCEPT ![p] = NoRet]
  /\ startFlag' = [startFlag EXCEPT ![p] = FALSE]
  /\ seenDone' = [seenDone EXCEPT ![p] = NoneDone]
  /\ prior' = [prior EXCEPT ![p] = {}]
  /\ logSeen' = [logSeen EXCEPT ![p] = <<>>]
  /\ UNCHANGED <<shared, sigvars, budget, lastPoll, doneErrs, starts, retd>>

----------------------------------------------------------------------------
\* func ExitWithoutError(): (&shouldExit).Store(true); exitCond.Broadcast()

\* Faulty variant of Store: setting the flag also empties the reason log.
StoreClearsReasons(p) ==
  /\ p \in Signalers /\ pc[p] = "ewe_store" /\ ~killed
  /\ shouldExit' = TRUE
  /\ exitReasons' = <<>>
  /\ Goto(p, "ewe_bcast")
  /\ UNCHANGED <<signalAlreadyHandled, mutex, notifyList,
                 sigvars, op, arg, ret, budget, hist, retd>>

Store(p) ==
  /\ p \in Signalers /\ pc[p] = "ewe_store" /\ ~killed
  /\ shouldExit' = TRUE
  /\ Goto(p, "ewe_bcast")
  /\ UNCHANGED <<exitReasons, signalAlreadyHandled, mutex, notifyList,
                 sigvars, op, arg, ret, budget, hist, retd>>

\* Faulty variant of Broadcast: the flag is reset once the waiters are woken.
BroadcastResetsFlag(p) ==
  /\ p \in Signalers /\ pc[p] = "ewe_bcast" /\ ~killed
  /\ notifyList' = {}
  /\ shouldExit' = FALSE
  /\ Goto(p, AfterExitWithoutError(p))
  /\ doneErrs' = IF op[p] = "ExitWithError" /\ arg[p] \in Errs
                 THEN [doneErrs EXCEPT ![arg[p]] = @ + 1]
                 ELSE doneErrs
  /\ UNCHANGED <<exitReasons, signalAlreadyHandled, mutex,
                 sigvars, op, arg, ret, budget, lastPoll, seenDone, logSeen,
                 startFlag, starts, retd, prior>>

\* Broadcast notifies every ticket taken so far.  The ExitWithError or
\* ExitWithoutError call is complete when it returns.
Broadcast(p) ==
  /\ p \in Signalers /\ pc[p] = "ewe_bcast" /\ ~killed
  /\ notifyList' = {}
  /\ Goto(p, AfterExitWithoutError(p))
  /\ doneErrs' = IF op[p] = "ExitWithError" /\ arg[p] \in Errs
                 THEN [doneErrs EXCEPT ![arg[p]] = @ + 1]
                 ELSE doneErrs
  /\ UNCHANGED <<shouldExit, exitReasons, signalAlreadyHandled, mutex,
                 sigvars, op, arg, ret, budget, lastPoll, seenDone, logSeen,
                 startFlag, starts, retd, prior>>

----------------------------------------------------------------------------
\* func ExitWithError(e error)

\* Faulty variant of ErrLock: the flag is set before the reason is appended.
ErrLockStoresFirst(p) ==
  /\ p \in Workers /\ pc[p] = "err_lock" /\ ~killed
  /\ Lock(p)
  /\ shouldExit' = TRUE
  /\ Goto(p, "err_append")
  /\ UNCHANGED <<exitReasons, signalAlreadyHandled, notifyList,
                 sigvars, op, arg, ret, budget, hist, retd>>

ErrLock(p) ==
  /\ p \in Workers /\ pc[p] = "err_lock" /\ ~killed
  /\ Lock(p)
  /\ Goto(p, "err_append")
  /\ UNCHANGED <<shouldExit, exitReasons, signalAlreadyHandled, notifyList,
                 sigvars, op, arg, ret, budget, hist, retd>>

\* Faulty variant of ErrAppend: a reason the log already holds is not added.
ErrAppendDedups(p) ==
  /\ p \in Workers /\ pc[p] = "err_append" /\ ~killed
  /\ exitReasons' = IF \E i \in DOMAIN exitReasons : exitReasons[i] = arg[p]
                    THEN exitReasons
                    ELSE Append(exitReasons, arg[p])
  /\ Goto(p, "err_unlock")
  /\ UNCHANGED <<shouldExit, signalAlreadyHandled, mutex, notifyList,
                 sigvars, op, arg, ret, budget, hist, retd>>

\* Faulty variant of ErrAppend: the new reason is put in front of the log.
ErrAppendPrepends(p) ==
  /\ p \in Workers /\ pc[p] = "err_append" /\ ~killed
  /\ exitReasons' = <<arg[p]>> \o exitReasons
  /\ Goto(p, "err_unlock")
  /\ UNCHANGED <<shouldExit, signalAlreadyHandled, mutex, notifyList,
                 sigvars, op, arg, ret, budget, hist, retd>>

\* Faulty variant of ErrAppend: the new reason replaces the log.
ErrAppendOverwrites(p) ==
  /\ p \in Workers /\ pc[p] = "err_append" /\ ~killed
  /\ exitReasons' = <<arg[p]>>
  /\ Goto(p, "err_unlock")
  /\ UNCHANGED <<shouldExit, signalAlreadyHandled, mutex, notifyList,
                 sigvars, op, arg, ret, budget, hist, retd>>

\* exitReasons = append(exitReasons, e)
ErrAppend(p) ==
  /\ p \in Workers /\ pc[p] = "err_append" /\ ~killed
  /\ exitReasons' = Append(exitReasons, arg[p])
  /\ Goto(p, "err_unlock")
  /\ UNCHANGED <<shouldExit, signalAlreadyHandled, mutex, notifyList,
                 sigvars, op, arg, ret, budget, hist, retd>>

\* Unlock, then call ExitWithoutError().
ErrUnlock(p) ==
  /\ p \in Workers /\ pc[p] = "err_unlock" /\ ~killed
  /\ Unlock(p)
  /\ Goto(p, "ewe_store")
  /\ UNCHANGED <<shouldExit, exitReasons, signalAlreadyHandled, notifyList,
                 sigvars, op, arg, ret, budget, hist, retd>>

----------------------------------------------------------------------------
\* func ExitReason() error

ReasonLock(p) ==
  /\ p \in Waiters /\ pc[p] = "er_lock" /\ ~killed
  /\ Lock(p)
  /\ Goto(p, "er_len")
  /\ UNCHANGED <<shouldExit, exitReasons, signalAlreadyHandled, notifyList,
                 sigvars, op, arg, ret, budget, hist, retd>>

\* The two tests of len(exitReasons), made with the mutex held.
ReasonLen(p) ==
  /\ p \in Waiters /\ pc[p] = "er_len" /\ ~killed
  /\ Goto(p, CASE Len(exitReasons) = 0 -> "er_unlock0"
               [] Len(exitReasons) = 1 -> "er_unlock1"
               [] OTHER -> "er_join")
  /\ logSeen' = [logSeen EXCEPT ![p] = exitReasons]
  /\ UNCHANGED <<shared, sigvars, op, arg, ret, budget, lastPoll, doneErrs,
                 seenDone, startFlag, starts, retd, prior>>

\* No reason: Unlock; return nil
ReasonNone(p) ==
  /\ p \in Waiters /\ pc[p] = "er_unlock0" /\ ~killed
  /\ Unlock(p)
  /\ ret' = [ret EXCEPT ![p] = NilRet]
  /\ Goto(p, AfterExitReason(p))
  /\ UNCHANGED <<shouldExit, exitReasons, signalAlreadyHandled, notifyList,
                 sigvars, op, arg, budget, hist>>
  /\ RecordReturn(p, NilRet)

\* One reason: Unlock ...
ReasonOneUnlock(p) ==
  /\ p \in Waiters /\ pc[p] = "er_unlock1" /\ ~killed
  /\ Unlock(p)
  /\ Goto(p, "er_read1")
  /\ UNCHANGED <<shouldExit, exitReasons, signalAlreadyHandled, notifyList,
                 sigvars, op, arg, ret, budget, hist, retd>>

\* Faulty variant of ReasonOneRead: the latest entry is returned.
ReasonOneReadLatest(p) ==
  /\ p \in Waiters /\ pc[p] = "er_read1" /\ ~killed
  /\ ret' = [ret EXCEPT ![p] = SingleRet(exitReasons[Len(exitReasons)])]
  /\ Goto(p, AfterExitReason(p))
  /\ UNCHANGED <<shared, sigvars, op, arg, budget, hist>>
  /\ RecordReturn(p, SingleRet(exitReasons[Len(exitReasons)]))

\* Faulty variant of ReasonOneRead: the single reason is returned wrapped in
\* a join error.
ReasonOneReadWraps(p) ==
  /\ p \in Waiters /\ pc[p] = "er_read1" /\ ~killed
  /\ ret' = [ret EXCEPT ![p] = Join(<<exitReasons[1]>>)]
  /\ Goto(p, AfterExitReason(p))
  /\ UNCHANGED <<shared, sigvars, op, arg, budget, hist>>
  /\ RecordReturn(p, Join(<<exitReasons[1]>>))

\* ... return exitReasons[0], read after the mutex was released.  An append
\* running at the same time writes the entry after the last one and the
\* length; within the slice's capacity of 16 the first entry is not written
\* again, so the read yields it.
ReasonOneRead(p) ==
  /\ p \in Waiters /\ pc[p] = "er_read1" /\ ~killed
  /\ ret' = [ret EXCEPT ![p] = SingleRet(exitReasons[1])]
  /\ Goto(p, AfterExitReason(p))
  /\ UNCHANGED <<shared, sigvars, op, arg, budget, hist>>
  /\ RecordReturn(p, SingleRet(exitReasons[1]))

\* Two or more reasons: e := errors.Join(exitReasons...)
ReasonJoin(p) ==
  /\ p \in Waiters /\ pc[p] = "er_join" /\ ~killed
  /\ ret' = [ret EXCEPT ![p] = Join(exitReasons)]
  /\ Goto(p, "er_unlockj")
  /\ UNCHANGED <<shared, sigvars, op, arg, budget, hist, retd>>

\* Unlock; return e
ReasonJoinUnlock(p) ==
  /\ p \in Waiters /\ pc[p] = "er_unlockj" /\ ~killed
  /\ Unlock(p)
  /\ Goto(p, AfterExitReason(p))
  /\ UNCHANGED <<shouldExit, exitReasons, signalAlreadyHandled, notifyList,
                 sigvars, op, arg, ret, budget, hist>>
  /\ RecordReturn(p, ret[p])

----------------------------------------------------------------------------
\* func WaitForExit() error

\* exitCond.L.Lock()
WaitLock(p) ==
  /\ p \in Waiters /\ pc[p] = "w_lock" /\ ~killed
  /\ Lock(p)
  /\ Goto(p, "w_check")
  /\ UNCHANGED <<shouldExit, exitReasons, signalAlreadyHandled, notifyList,
                 sigvars, op, arg, ret, budget, hist, retd>>

\* Faulty variant of WaitCheck: the loop condition lacks its negation.
WaitCheckInverted(p) ==
  /\ p \in Waiters /\ pc[p] = "w_check" /\ ~killed
  /\ Goto(p, IF shouldExit THEN "w_add" ELSE "w_unlock")
  /\ UNCHANGED <<shared, sigvars, op, arg, ret, budget, hist, retd>>

\* for !(&shouldExit).Load()
WaitCheck(p) ==
  /\ p \in Waiters /\ pc[p] = "w_check" /\ ~killed
  /\ Goto(p, IF shouldExit THEN "w_unlock" ELSE "w_add")
  /\ UNCHANGED <<shared, sigvars, op, arg, ret, budget, hist, retd>>

\* exitCond.Wait(), first step: t := runtime_notifyListAdd(&c.notify)
WaitAdd(p) ==
  /\ p \in Waiters /\ pc[p] = "w_add" /\ ~killed
  /\ notifyList' = notifyList \cup {p}
  /\ Goto(p, "w_cunlock")
  /\ UNCHANGED <<shouldExit, exitReasons, signalAlreadyHandled, mutex,
                 sigvars, op, arg, ret, budget, hist, retd>>

\* exitCond.Wait(), second step: c.L.Unlock()
WaitCondUnlock(p) ==
  /\ p \in Waiters /\ pc[p] = "w_cunlock" /\ ~killed
  /\ Unlock(p)
  /\ Goto(p, "w_park")
  /\ UNCHANGED <<shouldExit, exitReasons, signalAlreadyHandled, notifyList,
                 sigvars, op, arg, ret, budget, hist, retd>>

\* exitCond.Wait(), third step: runtime_notifyListWait(&c.notify, t) returns
\* once the ticket has been notified.
WaitPark(p) ==
  /\ p \in Waiters /\ pc[p] = "w_park" /\ ~killed
  /\ p \notin notifyList
  /\ Goto(p, "w_relock")
  /\ UNCHANGED <<shared, sigvars, op, arg, ret, budget, hist, retd>>

\* exitCond.Wait(), last step: c.L.Lock()
WaitRelock(p) ==
  /\ p \in Waiters /\ pc[p] = "w_relock" /\ ~killed
  /\ Lock(p)
  /\ Goto(p, "w_check")
  /\ UNCHANGED <<shouldExit, exitReasons, signalAlreadyHandled, notifyList,
                 sigvars, op, arg, ret, budget, hist, retd>>

\* exitCond.L.Unlock(); return ExitReason()
WaitUnlock(p) ==
  /\ p \in Waiters /\ pc[p] = "w_unlock" /\ ~killed
  /\ Unlock(p)
  /\ Goto(p, "er_lock")
  /\ UNCHANGED <<shouldExit, exitReasons, signalAlreadyHandled, notifyList,
                 sigvars, op, arg, ret, budget, hist, retd>>

----------------------------------------------------------------------------
\* func ExitOnInterrupt()

InstallLock(p) ==
  /\ p \in Workers /\ pc[p] = "eoi_lock" /\ ~killed
  /\ Lock(p)
  /\ Goto(p, "eoi_check")
  /\ UNCHANGED <<shouldExit, exitReasons, signalAlreadyHandled, notifyList,
                 sigvars, op, arg, ret, budget, hist, retd>>

\* if signalAlreadyHandled
InstallCheck(p) ==
  /\ p \in Workers /\ pc[p] = "eoi_check" /\ ~killed
  /\ Goto(p, IF signalAlreadyHandled THEN "eoi_unlock_ret" ELSE "eoi_go")
  /\ UNCHANGED <<shared, sigvars, op, arg, ret, budget, hist, retd>>

\* Already handled: Unlock; return
\* Faulty variant of InstallSkip: the early return keeps the mutex locked.
InstallSkipKeepsLock(p) ==
  /\ p \in Workers /\ pc[p] = "eoi_unlock_ret" /\ ~killed
  /\ Goto(p, "ret")
  /\ UNCHANGED <<shouldExit, exitReasons, signalAlreadyHandled, mutex,
                 notifyList, sigvars, op, arg, ret, budget, hist, retd>>

InstallSkip(p) ==
  /\ p \in Workers /\ pc[p] = "eoi_unlock_ret" /\ ~killed
  /\ Unlock(p)
  /\ Goto(p, "ret")
  /\ UNCHANGED <<shouldExit, exitReasons, signalAlreadyHandled, notifyList,
                 sigvars, op, arg, ret, budget, hist, retd>>

\* go waitForInterruptRoutine()
InstallGo(p) ==
  /\ p \in Workers /\ pc[p] = "eoi_go" /\ ~killed
  /\ pc' = [pc EXCEPT ![p] = "eoi_set", ![BridgeParent] = "b_notify"]
  /\ starts' = starts + 1
  /\ UNCHANGED <<shared, sigvars, op, arg, ret, budget, lastPoll, doneErrs,
                 seenDone, logSeen, startFlag, retd, prior>>

\* Faulty variant of InstallSet: the installer does not record that the
\* bridge is installed.
InstallSetForgotten(p) ==
  /\ p \in Workers /\ pc[p] = "eoi_set" /\ ~killed
  /\ Goto(p, "eoi_unlock")
  /\ UNCHANGED <<shared, sigvars, op, arg, ret, budget, hist, retd>>

\* signalAlreadyHandled = true
InstallSet(p) ==
  /\ p \in Workers /\ pc[p] = "eoi_set" /\ ~killed
  /\ signalAlreadyHandled' = TRUE
  /\ Goto(p, "eoi_unlock")
  /\ UNCHANGED <<shouldExit, exitReasons, mutex, notifyList,
                 sigvars, op, arg, ret, budget, hist, retd>>

InstallUnlock(p) ==
  /\ p \in Workers /\ pc[p] = "eoi_unlock" /\ ~killed
  /\ Unlock(p)
  /\ Goto(p, "ret")
  /\ UNCHANGED <<shouldExit, exitReasons, signalAlreadyHandled, notifyList,
                 sigvars, op, arg, ret, budget, hist, retd>>

----------------------------------------------------------------------------
\* func waitForInterruptRoutine() and the goroutine it starts

\* c := make(chan os.Signal, 1); signal.Notify(c, os.Interrupt)
BridgeNotify ==
  /\ pc[BridgeParent] = "b_notify" /\ ~killed
  /\ registered' = TRUE
  /\ chanBuf' = 0
  /\ chanClosed' = FALSE
  /\ notifies' = notifies + 1
  /\ Goto(BridgeParent, "b_go")
  /\ UNCHANGED <<shared, killed, intLog, op, arg, ret, budget, hist, retd>>

\* go func() { <-c; ExitWithoutError() }()
BridgeGo ==
  /\ pc[BridgeParent] = "b_go" /\ ~killed
  /\ pc' = [pc EXCEPT ![BridgeParent] = "b_wait", ![BridgeChild] = "c_recv"]
  /\ UNCHANGED <<shared, sigvars, op, arg, ret, budget, hist, retd>>

\* WaitForExit(), the result is not used
BridgeWait ==
  /\ pc[BridgeParent] = "b_wait" /\ ~killed
  /\ Enter(BridgeParent, "WaitForExit", "w_lock")
  /\ UNCHANGED <<shared, sigvars, arg, ret, budget, lastPoll, doneErrs, logSeen, starts, retd>>

\* Faulty variant of BridgeStop: the channel is not deregistered.
BridgeStopForgotten ==
  /\ pc[BridgeParent] = "b_stop" /\ ~killed
  /\ Goto(BridgeParent, "b_close")
  /\ op' = [op EXCEPT ![BridgeParent] = "none"]
  /\ ret' = [ret EXCEPT ![BridgeParent] = NoRet]
  /\ startFlag' = [startFlag EXCEPT ![BridgeParent] = FALSE]
  /\ seenDone' = [seenDone EXCEPT ![BridgeParent] = NoneDone]
  /\ prior' = [prior EXCEPT ![BridgeParent] = {}]
  /\ logSeen' = [logSeen EXCEPT ![BridgeParent] = <<>>]
  /\ UNCHANGED <<shared, sigvars, arg, budget, lastPoll, doneErrs, starts, retd>>

\* signal.Stop(c)
BridgeStop ==
  /\ pc[BridgeParent] = "b_stop" /\ ~killed
  /\ registered' = FALSE
  /\ Goto(BridgeParent, "b_close")
  /\ op' = [op EXCEPT ![BridgeParent] = "none"]
  /\ ret' = [ret EXCEPT ![BridgeParent] = NoRet]
  /\ startFlag' = [startFlag EXCEPT ![BridgeParent] = FALSE]
  /\ seenDone' = [seenDone EXCEPT ![BridgeParent] = NoneDone]
  /\ prior' = [prior EXCEPT ![BridgeParent] = {}]
  /\ logSeen' = [logSeen EXCEPT ![BridgeParent] = <<>>]
  /\ UNCHANGED <<shared, chanBuf, chanClosed, killed, intLog, notifies,
                 arg, budget, lastPoll, doneErrs, starts, retd>>

\* close(c)
BridgeClose ==
  /\ pc[BridgeParent] = "b_close" /\ ~killed
  /\ chanClosed' = TRUE
  /\ Goto(BridgeParent, "b_done")
  /\ UNCHANGED <<shared, registered, chanBuf, killed, intLog, notifies,
                 op, arg, ret, budget, hist, retd>>

\* Faulty variant of ChildRecv: the receive does not block.
ChildRecvNoWait ==
  /\ pc[BridgeChild] = "c_recv" /\ ~killed
  /\ chanBuf' = IF chanBuf > 0 THEN chanBuf - 1 ELSE chanBuf
  /\ Goto(BridgeChild, "ewe_store")
  /\ op' = [op EXCEPT ![BridgeChild] = "ExitWithoutError"]
  /\ UNCHANGED <<shared, registered, chanClosed, killed, intLog, notifies,
                 arg, ret, budget, hist, retd>>

\* <-c returns when a signal is buffered or c is closed; then the child
\* calls ExitWithoutError().
ChildRecv ==
  /\ pc[BridgeChild] = "c_recv" /\ ~killed
  /\ chanBuf > 0 \/ chanClosed
  /\ chanBuf' = IF chanBuf > 0 THEN chanBuf - 1 ELSE chanBuf
  /\ Goto(BridgeChild, "ewe_store")
  /\ op' = [op EXCEPT ![BridgeChild] = "ExitWithoutError"]
  /\ UNCHANGED <<shared, registered, chanClosed, killed, intLog, notifies,
                 arg, ret, budget, hist, retd>>

----------------------------------------------------------------------------
\* The environment: an os.Interrupt arrives.  While c is registered the
\* os/signal package takes it and sends it to c without blocking (a signal
\* that finds the buffer full is dropped); otherwise the default action
\* terminates the process.
InterruptOutcome ==
  IF registered THEN (IF chanBuf = 0 /\ ~chanClosed THEN "delivered" ELSE "dropped")
  ELSE "default"

\* An unhandled interrupt ends every goroutine of the process.
Dead ==
  /\ pc' = [p \in Procs |-> "dead"]
  /\ op' = [p \in Procs |-> "none"]
  /\ arg' = [p \in Procs |-> NilErr]
  /\ ret' = [p \in Procs |-> NoRet]
  /\ seenDone' = [p \in Procs |-> NoneDone]
  /\ prior' = [p \in Procs |-> {}]
  /\ logSeen' = [p \in Procs |-> <<>>]
  /\ startFlag' = [p \in Procs |-> FALSE]
  /\ budget' = 0

Interrupt ==
  /\ ~killed /\ Len(intLog) < MaxInterrupts
  /\ intLog' = Append(intLog, InterruptOutcome)
  /\ chanBuf' = IF InterruptOutcome = "delivered" THEN 1 ELSE chanBuf
  /\ killed' = (InterruptOutcome = "default")
  /\ IF InterruptOutcome = "default"
     THEN Dead
     ELSE UNCHANGED <<pc, op, arg, ret, budget, seenDone, logSeen, startFlag,
                     prior>>
  /\ UNCHANGED <<shared, registered, chanClosed, notifies,
                 lastPoll, doneErrs, starts, retd>>

----------------------------------------------------------------------------
\* A step of a goroutine that is inside a call or inside the bridge.
Step(p) ==
  \/ Return(p)
  \/ Store(p) \/ Broadcast(p)
  \/ ErrLock(p) \/ ErrAppend(p) \/ ErrUnlock(p)
  \/ ReasonLock(p) \/ ReasonLen(p) \/ ReasonNone(p)
  \/ ReasonOneUnlock(p) \/ ReasonOneRead(p)
  \/ ReasonJoin(p) \/ ReasonJoinUnlock(p)
  \/ WaitLock(p) \/ WaitCheck(p) \/ WaitAdd(p) \/ WaitCondUnlock(p)
  \/ WaitPark(p) \/ WaitRelock(p) \/ WaitUnlock(p)
  \/ InstallLock(p) \/ InstallCheck(p) \/ InstallSkip(p)
  \/ InstallGo(p) \/ InstallSet(p) \/ InstallUnlock(p)

BridgeStep ==
  \/ BridgeNotify \/ BridgeGo \/ BridgeWait \/ BridgeStop \/ BridgeClose
  \/ ChildRecv

\* A worker starts a call.
Call(p) ==
  \/ ShouldExit(p)
  \/ CallExitWithoutError(p)
  \/ \E e \in ErrArgs : CallExitWithError(p, e)
  \/ \E e \in Errs : CallExitWithErrorf(p, e)
  \/ CallExitReason(p)
  \/ CallExitOnInterrupt(p)
  \/ CallWaitForExit(p)

Next ==
  \/ \E p \in Workers : Call(p)
  \/ \E p \in Procs : Step(p)
  \/ BridgeStep
  \/ Interrupt

Spec == Init /\ [][Next]_vars

\* The state after a first call, ExitWithoutError() or ExitWithError(e) with
\* a reason e, has run alone and returned: the flag is true and the log is
\* empty or holds e.
InitAfterExit ==
  /\ shouldExit = TRUE
  /\ \E log \in {<<>>} \cup {<<e>> : e \in Errs} :
       /\ exitReasons = log
       /\ doneErrs = [e \in Errs |-> Count(e, log)]
  /\ signalAlreadyHandled = FALSE
  /\ mutex = NoOwner
  /\ notifyList = {}
  /\ registered = FALSE
  /\ chanBuf = 0
  /\ chanClosed = FALSE
  /\ killed = FALSE
  /\ pc = [p \in Procs |-> IF p \in Workers THEN "idle" ELSE "off"]
  /\ op = [p \in Procs |-> "none"]
  /\ arg = [p \in Procs |-> NilErr]
  /\ ret = [p \in Procs |-> NoRet]
  /\ budget = MaxCalls
  /\ intLog = <<>>
  /\ lastPoll = "none"
  /\ seenDone = [p \in Procs |-> NoneDone]
  /\ logSeen = [p \in Procs |-> <<>>]
  /\ startFlag = [p \in Procs |-> FALSE]
  /\ starts = 0
  /\ retd = {}
  /\ prior = [p \in Procs |-> {}]
  /\ notifies = 0

\* The behaviours that begin at package init or after a first exit call.
SpecLate == (Init \/ InitAfterExit) /\ [][Next]_vars

\* The program whose only exit requests are ExitWithError and ExitWithErrorf
\* calls: no goroutine calls ExitWithoutError and no interrupt arrives.
CallErrOnly(p) ==
  \/ ShouldExit(p)
  \/ \E e \in ErrArgs : CallExitWithError(p, e)
  \/ \E e \in Errs : CallExitWithErrorf(p, e)
  \/ CallExitReason(p)
  \/ CallExitOnInterrupt(p)
  \/ CallWaitForExit(p)

NextErrOnly ==
  \/ \E p \in Workers : CallErrOnly(p)
  \/ \E p \in Procs : Step(p)
  \/ BridgeStep

SpecErrOnly == Init /\ [][NextErrOnly]_vars

\* No goroutine that is inside a call or inside the bridge can take a step:
\* each has returned or is blocked.  Under fair scheduling every behaviour
\* ends in such a state.
Quiescent == ~ENABLED (BridgeStep \/ \E p \in Procs : Step(p))

----------------------------------------------------------------------------
\* Helpers of the properties.

\* The reasons (non-nil errors) among the first k entries of the log.
ReasonsOfPrefix(k) == SelectSeq(SubSeq(exitReasons, 1, k), NotNil)

\* What ExitReason is specified to return for a reason log.
Reference(log) ==
  IF Len(log) = 0 THEN NilRet
  ELSE IF Len(log) = 1 THEN SingleRet(log[1])
  ELSE Join(log)

\* A goroutine whose call has returned and whose result is still at hand.
Returned(p, o) == pc[p] = "ret" /\ op[p] = o

InWaitForExit(p) == op[p] = "WaitForExit"

Intercepted(o) == o \in {"delivered", "dropped"}

----------------------------------------------------------------------------
\* C1: no missed wakeup.  Under fair scheduling every WaitForExit call
\* returns once an ExitWithoutError or ExitWithError call has completed:
\* when the exit flag is true and no goroutine has a step left to take, no
\* goroutine is still inside WaitForExit.
C1_NoMissedWakeup ==
  (Quiescent /\ ~killed /\ shouldExit) =>
    \A p \in Waiters : ~InWaitForExit(p)

\* C2: reason preservation.  The result of a WaitForExit call holds every
\* reason of the ExitWithError calls completed before the call began, as
\* often as it was given, and its reasons are those of a prefix of the log,
\* in log order.
C2_ReasonPreservation ==
  \A p \in Workers :
    Returned(p, "WaitForExit") =>
      /\ \A e \in Errs : Count(e, ret[p].errs) >= seenDone[p][e]
      /\ \E k \in 0..Len(exitReasons) : ret[p].errs = ReasonsOfPrefix(k)

\* C2 witness: a WaitForExit returned the join of two different reasons,
\* both given by ExitWithError calls that completed before it began.
C2_Witness ==
  \E p \in Workers :
    /\ Returned(p, "WaitForExit")
    /\ ret[p].kind = "join"
    /\ \A e \in Errs : seenDone[p][e] >= 1

\* C3: ExitWithoutError leaves the reason log unchanged: no step of
\* ExitWithoutError, made by a worker or by the bridge, with the flag true
\* or false, changes exitReasons; and a WaitForExit that began after
\* ExitWithError(e) completed returns e itself while e is the only entry.
C3_ExitWithoutErrorKeepsReasons ==
  [][/\ (\E p \in Signalers :
           pc[p] \in {"ewe_store", "ewe_bcast"} /\ pc'[p] # pc[p])
        => exitReasons' = exitReasons
     /\ \A p \in Workers, e \in Errs :
          (Returned(p, "WaitForExit") /\ seenDone[p][e] >= 1
             /\ exitReasons = <<e>>)
          => ret[p] = SingleRet(e)]_vars

\* C3 witness: an ExitWithoutError call has completed with the flag already
\* true and a reason recorded, and a WaitForExit has returned that reason.
C3_Witness ==
  \E p, q \in Workers :
    /\ Returned(q, "ExitWithoutError") /\ startFlag[q]
    /\ Returned(p, "WaitForExit")
    /\ exitReasons = <<1>> /\ seenDone[p][1] = 1
    /\ ret[p] = SingleRet(1)

\* C4: the exit flag is monotonic: no step makes it false again, and after
\* a ShouldExit call returned true no ShouldExit call returns false.
C4_FlagMonotonic ==
  [][/\ shouldExit => shouldExit'
     /\ lastPoll = "true" => lastPoll' = "true"]_vars

\* C4 witness: two ShouldExit calls have returned true.
C4_Witness ==
  /\ lastPoll = "true"
  /\ \A p \in Workers : Returned(p, "ShouldExit") /\ ret[p] = BoolRet(TRUE)

\* C5: the value ExitReason computes (for its caller or for WaitForExit) is
\* nil for an empty log, the entry itself for a log of one entry, and the
\* join of all entries in log order otherwise, for the log as it was when
\* the call tested its length.
C5_ExitReasonMatchesReference ==
  \A p \in Waiters :
    (op[p] \in {"ExitReason", "WaitForExit"} /\ ret[p] # NoRet) =>
      ret[p] = Reference(logSeen[p])

\* C5 witness: an ExitReason call returned the join of a log of two
\* different entries.
C5_Witness ==
  \E p \in Workers :
    /\ Returned(p, "ExitReason")
    /\ ret[p].kind = "join" /\ Len(logSeen[p]) = 2
    /\ logSeen[p][1] # logSeen[p][2]

\* C6: at-most-once installation: the bridge routine is started at most
\* once and registers at most one listener, whatever the number of
\* ExitOnInterrupt calls; a call that finds the bridge installed changes
\* nothing but the mutex.
C6_InstallAtMostOnce ==
  /\ starts <= 1
  /\ notifies <= 1
  /\ signalAlreadyHandled => starts = 1
  /\ \A p \in Workers : pc[p] = "eoi_go" => starts = 0

\* C6 witness: an ExitOnInterrupt call made after the bridge tore itself
\* down found the bridge installed and skipped the installation.
C6_Witness ==
  \E p \in Workers :
    /\ pc[p] = "eoi_unlock_ret"
    /\ BridgePhase = "torndown"
    /\ starts = 1 /\ notifies = 1

C8_InterruptReleasesWaiters ==
  /\ (Quiescent /\ ~killed /\ \E i \in DOMAIN intLog : Intercepted(intLog[i])) =>
       /\ shouldExit
       /\ \A p \in Workers : ~InWaitForExit(p)
  /\ \A p \in Workers :
       (Returned(p, "WaitForExit") /\ exitReasons = <<>>) => ret[p] = NilRet

\* C9: bridge teardown on any exit: once ExitOnInterrupt has been called
\* and the exit flag is true, the bridge deregisters its listener and closes
\* its channel: when no goroutine has a step left to take, both are done.
C9_BridgeTearsDown ==
  (Quiescent /\ ~killed /\ signalAlreadyHandled /\ shouldExit) =>
    (~registered /\ chanClosed)

\* C10: a WaitForExit call that began with the exit flag true never
\* suspends on the condition variable, and it returns without any further
\* Broadcast: when no goroutine has a step left to take, it has returned.
C10_ImmediateReturn ==
  \A p \in Waiters :
    (InWaitForExit(p) /\ startFlag[p]) =>
      /\ pc[p] \notin {"w_add", "w_cunlock", "w_park", "w_relock"}
      /\ ~Quiescent

\* C10 witness: a WaitForExit call that began with the flag true has
\* returned while nobody was signalling.
C10_Witness ==
  \E p \in Workers :
    /\ Returned(p, "WaitForExit") /\ startFlag[p]
    /\ \A q \in Signalers : pc[q] \notin {"ewe_store", "ewe_bcast"}

\* s is a prefix of t.
IsPrefix(s, t) == Len(s) <= Len(t) /\ s = SubSeq(t, 1, Len(s))

\* C11 as claimed: two WaitForExit calls made after the exit, the second
\* begun after the first returned, return the same reasons, whatever the
\* other workers do in between.
C11_TwoWaitsSameResult ==
  \A p \in Workers :
    (Returned(p, "WaitForExit") /\ startFlag[p]) =>
      \A r \in prior[p] : r.after => r.errs = ret[p].errs

\* C11 as amended: the two calls return the same reasons when no reason was
\* appended to the log between their reads of it.
C11_TwoWaitsSameResultOnSameLog ==
  \A p \in Workers :
    (Returned(p, "WaitForExit") /\ startFlag[p]) =>
      \A r \in prior[p] :
        (r.after /\ r.log = logSeen[p]) => r.errs = ret[p].errs

\* C11 witness: a second WaitForExit made after the exit returned the
\* reason the first returned, with a reason in the log.
C11_Witness ==
  \E p \in Workers :
    /\ Returned(p, "WaitForExit") /\ startFlag[p]
    /\ \E r \in prior[p] :
         r.after /\ r.log = logSeen[p] /\ r.errs = ret[p].errs /\ r.errs # <<>>

\* C12: results of WaitForExit only grow: the reasons returned by a call
\* that returned before another began are a prefix of the reasons the other
\* returns.
C12_ResultsOnlyGrow ==
  \A p \in Workers :
    Returned(p, "WaitForExit") =>
      \A r \in prior[p] : IsPrefix(r.errs, ret[p].errs)

\* C12 witness: the second call returned more reasons than the first, an
\* ExitWithError having run in between.
C12_Witness ==
  \E p \in Workers :
    /\ Returned(p, "WaitForExit")
    /\ \E r \in prior[p] : r.errs # <<>> /\ Len(r.errs) < Len(ret[p].errs)

\* C13: the waiter's flag check and its enqueueing on the condition variable
\* are atomic with respect to the signaler's store and Broadcast: while a
\* WaitForExit caller has read the flag as false and is not yet enqueued,
\* no signaler has stored the flag, and a signaler stores and broadcasts
\* with the mutex held.
C13_CheckAndWaitAtomic ==
  /\ \A p \in Waiters : pc[p] = "w_add" => ~shouldExit
  /\ \A q \in Signalers : pc[q] \in {"ewe_store", "ewe_bcast"} => mutex = q

\* C14: ExitReason reads the reason log only while holding the mutex: a
\* goroutine about to read the length, the first entry or all the entries
\* owns the mutex.
C14_ReasonReadUnderMutex ==
  \A p \in Waiters :
    pc[p] \in {"er_len", "er_read1", "er_join"} => mutex = p

\* C15: while the bridge is installed (signalAlreadyHandled is true) and
\* not torn down, the interrupt listener is registered, so an interrupt is
\* intercepted.
C15_InstalledImpliesRegistered ==
  (signalAlreadyHandled /\ ~killed /\ BridgePhase # "torndown") => registered

\* C16 as claimed: when no interrupt ever arrived, neither bridge goroutine
\* calls ExitWithoutError.
C16_BridgeNeverSignalsWithoutInterrupt ==
  intLog = <<>> =>
    \A p \in {BridgeParent, BridgeChild} :
      pc[p] \notin {"ewe_store", "ewe_bcast", "c_done"}

\* C16 as amended: when no interrupt ever arrived, waitForInterruptRoutine
\* never calls ExitWithoutError, and its child calls it only after the
\* teardown closed the channel, when the flag is already true: the call
\* changes neither the flag nor the reason log.
C16_ChildSignalsOnlyAfterTeardown ==
  [][intLog' = <<>> =>
       /\ pc'[BridgeParent] \notin {"ewe_store", "ewe_bcast"}
       /\ (/\ pc'[BridgeChild] # pc[BridgeChild]
           /\ pc'[BridgeChild] \in {"ewe_store", "ewe_bcast", "c_done"}) =>
            /\ chanClosed /\ ~registered /\ pc[BridgeParent] = "b_done"
            /\ shouldExit /\ shouldExit'
            /\ exitReasons' = exitReasons]_vars

\* C16 witness: without any interrupt the bridge tore down and its child
\* has called ExitWithoutError.
C16_Witness ==
  intLog = <<>> /\ pc[BridgeParent] = "b_done" /\ pc[BridgeChild] = "c_done"

\* C17: the reason log is append-only: every step leaves the log as it was
\* or appends one entry to it, and the steps that append are exactly the
\* appends of ExitWithError, one per call, each adding the call's argument.
C17_LogAppendOnly ==
  [][/\ IsPrefix(exitReasons, exitReasons')
     /\ Len(exitReasons') <= Len(exitReasons) + 1
     /\ \A p \in Workers :
          (pc[p] = "err_append" /\ pc'[p] = "err_unlock")
            <=> (exitReasons' = Append(exitReasons, arg[p]) /\ mutex = p)]_vars

\* C17 witness: the same reason was given twice and the log holds it twice.
C17_Witness ==
  Len(exitReasons) = 2 /\ exitReasons[1] = exitReasons[2] /\ exitReasons[1] \in Errs

\* C18 as claimed: when the only exit requests are ExitWithError calls, a
\* true flag implies a non-empty reason log, and no WaitForExit returns nil.
C18_ErrorExitNeverNil ==
  /\ shouldExit => exitReasons # <<>>
  /\ \A p \in Workers : Returned(p, "WaitForExit") => ret[p] # NilRet

\* C18 as amended: when the only exit requests are ExitWithError calls, a
\* true flag implies a non-empty reason log, and a WaitForExit that returns
\* nil read a log that holds nil reasons only.
C18_ErrorExitNilOnlyForNilReasons ==
  /\ shouldExit => exitReasons # <<>>
  /\ \A p \in Workers :
       Returned(p, "WaitForExit") =>
         /\ logSeen[p] # <<>>
         /\ ret[p] = NilRet =>
              \A i \in DOMAIN logSeen[p] : logSeen[p][i] = NilErr

\* C18 witness: a WaitForExit returned a non-nil reason, and no interrupt
\* was involved.
C18_Witness ==
  \E p \in Workers :
    Returned(p, "WaitForExit") /\ ret[p] # NilRet /\ intLog = <<>>

\* The positions of a goroutine between locking and unlocking exitMutex.
InCritical(p) ==
  pc[p] \in {"err_append", "err_unlock",
             "er_len", "er_unlock0", "er_unlock1", "er_join", "er_unlockj",
             "w_check", "w_add", "w_cunlock", "w_unlock",
             "eoi_check", "eoi_unlock_ret", "eoi_go", "eoi_set", "eoi_unlock"}

\* The positions of a goroutine blocked in exitMutex.Lock().
AtLock(p) == pc[p] \in {"err_lock", "er_lock", "w_lock", "w_relock", "eoi_lock"}

\* C19: mutex discipline: the goroutine between a Lock and its Unlock is the
\* one owner of the mutex, there is at most one, a goroutine outside an
\* operation or returned from one does not hold the mutex, and when no
\* goroutine can step none is left waiting to lock it.
C19_MutexDiscipline ==
  ~killed =>
    /\ \A p \in Procs : InCritical(p) <=> mutex = p
    /\ Cardinality({p \in Procs : InCritical(p)}) <= 1
    /\ \A p \in Procs : pc[p] \in {"idle", "ret", "off", "b_done", "c_done"}
                            => mutex # p
    /\ Quiescent => (mutex = NoOwner /\ \A p \in Procs : ~AtLock(p))

\* C19 witness: one goroutine holds the mutex inside ExitOnInterrupt's early
\* return path while another waits to lock it.
C19_Witness ==
  \E p, q \in Procs :
    /\ pc[p] = "eoi_unlock_ret" /\ mutex = p
    /\ AtLock(q)
====
